---- MODULE Spec2Model ----
(***************************************************************************)
(* Model of the genetic algorithm engine of lab1/ga/genetic_algorithm.go.  *)
(*                                                                         *)
(* A Go slice is a reference to a backing array: Individual.Genes is an    *)
(* address into the engine's heap of gene arrays, so that copying an       *)
(* Individual (child1 = parent1, append(newPopulation, population[i]))     *)
(* copies the Fitness value and the reference, not the bits.               *)
(*                                                                         *)
(* The seeded random source is a stream fixed by its seed: a draw is any   *)
(* value of its range, and two sources of the same seed at the same        *)
(* position of their stream yield the same value.  Float64() values and    *)
(* the probabilities of the Config are counted in halves (0 is 0.0, 1 is   *)
(* 0.5, 2 is 1.0), so Float64() ranges over {0, 1}.                        *)
(*                                                                         *)
(* Fitness values are integers (the evaluators used are integer valued).   *)
(***************************************************************************)
EXTENDS Integers, Sequences, FiniteSets

VARIABLES ga, twin

vars == <<ga, twin>>

\* ------------------------------------------------------------- bounds
MaxPopulationSize == 2
MaxGenerationsBound == 2
MaxBitsPerGene == 2
\* bits a population holds: PopulationSize * BitsPerGene
MaxCells == 4
\* individuals a run breeds: PopulationSize * MaxGenerations
MaxOffspring == 4
\* calls of Run() on one engine
MaxRuns == 2

\* ------------------------------------------------- program constants
\* the literal 0.5 of Initialize and uniformCrossover, in halves
Half == 1
\* tournamentSize := 3
TournamentSize == 3

\* values of rng.Float64(), in halves: [0, 1) is {0.0, 0.5}
Float64s == {0, 1}

Min(a, b) == IF a < b THEN a ELSE b
Max(a, b) == IF a > b THEN a ELSE b

\* ------------------------------------------------------------- types
\* the zero value of Individual: nil Genes, Fitness 0
NilIndividual == [Genes |-> 0, Fitness |-> 0]

NoResult == [returned |-> FALSE, best |-> NilIndividual, history |-> << >>]

\* an engine that was never constructed
Absent == [pc |-> "absent"]

\* --------------------------------------------------------- evaluators
RECURSIVE BytesToIntFrom(_, _, _)
BytesToIntFrom(genes, i, result) ==
    IF i > Len(genes) THEN result
    ELSE BytesToIntFrom(genes, i + 1,
                        IF genes[i] = 1 THEN result + 2 ^ (i - 1) ELSE result)

\* result |= (1 << i) for every set bit i (0-based)
BytesToInt(genes) == BytesToIntFrom(genes, 1, 0)

\* The int BytesToInt returns is a two's complement word of IntBits bits:
\* a word is the set of its bit positions that are 1, position IntBits - 1
\* being the sign.  BytesToInt above is its value for genes shorter than
\* the word.
IntBits == 64

\* 1 << i: a shift by the width or more gives 0
shiftOne(i) == IF i < IntBits THEN {i} ELSE {}

RECURSIVE BytesToWordFrom(_, _, _)
BytesToWordFrom(genes, i, result) ==
    IF i > Len(genes) THEN result
    ELSE BytesToWordFrom(genes, i + 1,
                         IF genes[i] = 1 THEN result \cup shiftOne(i - 1) ELSE result)

\* BytesToInt(genes) as the word it returns
BytesToWord(genes) == BytesToWordFrom(genes, 1, {})

\* the fitness table of the array evaluator (arrayData), indexed from 0
arrayData == <<1, 3, 0, 3>>

\* config.FitnessFunc(genes)
FitnessFunc(config, genes) ==
    IF config.FitnessFunc = "array"
    THEN arrayData[(BytesToInt(genes) % Len(arrayData)) + 1]
    ELSE BytesToInt(genes)

\* ------------------------------------------------------- construction
\* mutant of NewRand: the source is seeded per engine, not from the Config
NewRand_perEngine(self, config) == [seed |-> config.Seed + self, pos |-> 0]

\* rand.New(rand.NewSource(config.Seed)): the stream of that seed, at its start
NewRand(self, config) == [seed |-> config.Seed, pos |-> 0]

\* two sources yield the same next values: same seed, same position
SameStream(r1, r2) == r1.seed = r2.seed /\ r1.pos = r2.pos

\* the engine `self` as NewGeneticAlgorithm(config) returns it; the fields
\* after rng are the locals of Run() and what it returned
NewGeneticAlgorithm(self, config) ==
    [self          |-> self,
     config        |-> config,
     population    |-> << >>,
     bestFitness   |-> << >>,
     rng           |-> NewRand(self, config),
     heap          |-> << >>,
     pc            |-> "new",
     generation    |-> 0,
     newPopulation |-> << >>,
     parent1       |-> NilIndividual,
     parent2       |-> NilIndividual,
     child1        |-> NilIndividual,
     child2        |-> NilIndividual,
     evals         |-> 0,
     runs          |-> 0,
     result        |-> NoResult]

\* ------------------------------------------------------------ ranking
\* the comparison of both sort.Slice calls: descending by the Fitness field
less(a, b) == a.Fitness > b.Fitness

Swap(s, i, j) == [s EXCEPT ![i] = s[j], ![j] = s[i]]

RECURSIVE SinkDown(_, _)
SinkDown(s, j) ==
    IF j > 1 /\ less(s[j], s[j - 1]) THEN SinkDown(Swap(s, j, j - 1), j - 1) ELSE s

RECURSIVE InsertionSortFrom(_, _)
InsertionSortFrom(s, i) ==
    IF i > Len(s) THEN s ELSE InsertionSortFrom(SinkDown(s, i), i + 1)

\* mutant of sortSlice: the population is left in the order it has
sortSlice_unsorted(s) == s

\* sort.Slice(ga.population, less): for slices of at most 6 elements the
\* library sorts by insertion (for i, for j > a && less(j, j-1): swap)
sortSlice(s) == InsertionSortFrom(s, 2)

\* ---------------------------------------------------------- operators
\* genes of an individual (a nil slice has no elements)
GenesOf(heap, individual) ==
    IF individual.Genes = 0 THEN << >> ELSE heap[individual.Genes]

RECURSIVE tournamentFrom(_, _, _, _)
tournamentFrom(population, ds, i, best) ==
    IF i > TournamentSize THEN best
    ELSE LET candidate == population[ds[i] + 1]
         IN  tournamentFrom(population, ds, i + 1,
                            IF candidate.Fitness > best.Fitness THEN candidate ELSE best)

\* mutant of tournamentSelection: the draws are compared last to first
tournamentSelection_lastFirst(population, ds) ==
    LET rs == [i \in 1..TournamentSize |-> ds[TournamentSize + 1 - i]]
    IN  tournamentFrom(population, rs, 2, population[rs[1] + 1])

\* tournamentSelection(): ds are the TournamentSize values of rng.Intn(len)
tournamentSelection(population, ds) ==
    tournamentFrom(population, ds, 2, population[ds[1] + 1])

\* mutant of onepointCrossover: the tail of child1 is copied from parent1
onepointCrossover_ownTail(heap, parent1, parent2, point) ==
    LET g1 == GenesOf(heap, parent1)
        g2 == GenesOf(heap, parent2)
        child1Genes == [i \in 1..Len(g1) |-> g1[i]]
        child2Genes == [i \in 1..Len(g2) |-> IF i <= point THEN g2[i] ELSE g1[i]]
    IN  [heap   |-> heap \o <<child1Genes, child2Genes>>,
         child1 |-> [Genes |-> Len(heap) + 1, Fitness |-> 0],
         child2 |-> [Genes |-> Len(heap) + 2, Fitness |-> 0]]

\* onepointCrossover with point = rng.Intn(len(parent1.Genes)): two new arrays
onepointCrossover(heap, parent1, parent2, point) ==
    LET g1 == GenesOf(heap, parent1)
        g2 == GenesOf(heap, parent2)
        child1Genes == [i \in 1..Len(g1) |-> IF i <= point THEN g1[i] ELSE g2[i]]
        child2Genes == [i \in 1..Len(g2) |-> IF i <= point THEN g2[i] ELSE g1[i]]
    IN  [heap   |-> heap \o <<child1Genes, child2Genes>>,
         child1 |-> [Genes |-> Len(heap) + 1, Fitness |-> 0],
         child2 |-> [Genes |-> Len(heap) + 2, Fitness |-> 0]]

\* mutant of uniformCrossover: on tails child2 takes parent2's bit as well
uniformCrossover_sameParent(heap, parent1, parent2, flips) ==
    LET g1 == GenesOf(heap, parent1)
        g2 == GenesOf(heap, parent2)
        child1Genes == [i \in 1..Len(g1) |-> IF flips[i] < Half THEN g1[i] ELSE g2[i]]
        child2Genes == [i \in 1..Len(g2) |-> g2[i]]
    IN  [heap   |-> heap \o <<child1Genes, child2Genes>>,
         child1 |-> [Genes |-> Len(heap) + 1, Fitness |-> 0],
         child2 |-> [Genes |-> Len(heap) + 2, Fitness |-> 0]]

\* uniformCrossover with flips[i] the value of rng.Float64() at position i
uniformCrossover(heap, parent1, parent2, flips) ==
    LET g1 == GenesOf(heap, parent1)
        g2 == GenesOf(heap, parent2)
        child1Genes == [i \in 1..Len(g1) |-> IF flips[i] < Half THEN g1[i] ELSE g2[i]]
        child2Genes == [i \in 1..Len(g2) |-> IF flips[i] < Half THEN g2[i] ELSE g1[i]]
    IN  [heap   |-> heap \o <<child1Genes, child2Genes>>,
         child1 |-> [Genes |-> Len(heap) + 1, Fitness |-> 0],
         child2 |-> [Genes |-> Len(heap) + 2, Fitness |-> 0]]

\* crossover(parent1, parent2): anything but "onepoint" is uniform
crossover(config, heap, parent1, parent2, ds) ==
    IF config.CrossoverType = "onepoint"
    THEN onepointCrossover(heap, parent1, parent2, ds[1])
    ELSE uniformCrossover(heap, parent1, parent2, ds)

\* mutant of mutateBit: <= for <
mutateBit_orEqual(config, bit, d) ==
    IF d <= config.MutationProb THEN (IF bit = 0 THEN 1 ELSE 0) ELSE bit

\* one bit of mutate: flipped when rng.Float64() < MutationProb
mutateBit(config, bit, d) ==
    IF d < config.MutationProb THEN (IF bit = 0 THEN 1 ELSE 0) ELSE bit

\* mutate(&individual): writes through individual.Genes, in place
mutate(config, heap, individual, ds) ==
    IF individual.Genes = 0 THEN heap
    ELSE [heap EXCEPT ![individual.Genes] =
              [i \in 1..Len(heap[individual.Genes]) |->
                  mutateBit(config, heap[individual.Genes][i], ds[i])]]

\* ------------------------------------------------- unreferenced arrays
\* the references an engine holds, in a fixed order
Roots(g) ==
    [i \in 1..Len(g.population) |-> g.population[i].Genes]
    \o [i \in 1..Len(g.newPopulation) |-> g.newPopulation[i].Genes]
    \o <<g.parent1.Genes, g.parent2.Genes, g.child1.Genes, g.child2.Genes,
         g.result.best.Genes>>

RECURSIVE FirstSeen(_, _)
FirstSeen(refs, seen) ==
    IF refs = << >> THEN seen
    ELSE LET a == Head(refs)
         IN  FirstSeen(Tail(refs),
                       IF a = 0 \/ (\E k \in 1..Len(seen) : seen[k] = a)
                       THEN seen ELSE Append(seen, a))

Moved(order, a) == IF a = 0 THEN 0 ELSE CHOOSE k \in 1..Len(order) : order[k] = a

MovedIndividual(order, individual) ==
    [individual EXCEPT !.Genes = Moved(order, individual.Genes)]

\* arrays no reference reaches are gone; the others are numbered in the
\* order of Roots (an address has no meaning but its identity)
Collect(g) ==
    LET order == FirstSeen(Roots(g), << >>)
    IN  [g EXCEPT
            !.heap = [k \in 1..Len(order) |-> g.heap[order[k]]],
            !.population = [i \in 1..Len(g.population) |->
                               MovedIndividual(order, g.population[i])],
            !.newPopulation = [i \in 1..Len(g.newPopulation) |->
                                  MovedIndividual(order, g.newPopulation[i])],
            !.parent1 = MovedIndividual(order, g.parent1),
            !.parent2 = MovedIndividual(order, g.parent2),
            !.child1 = MovedIndividual(order, g.child1),
            !.child2 = MovedIndividual(order, g.child2),
            !.result = [g.result EXCEPT !.best = MovedIndividual(order, g.result.best)]]

Panic(g) == [g EXCEPT !.pc = "panic"]

Drawn(rng, n) == [rng EXCEPT !.pos = rng.pos + n]

\* ------------------------------------------------------ steps of Run()
\* Initialize(): ds[(i-1)*BitsPerGene + j] is the Float64() of bit j of individual i
InitializeDraws(g) ==
    [1..(Max(g.config.PopulationSize, 0) * Max(g.config.BitsPerGene, 0)) -> Float64s]

Initialize(g, ds) ==
    LET P == g.config.PopulationSize
        B == g.config.BitsPerGene
        genes(i) == [j \in 1..B |-> IF ds[(i - 1) * B + j] < Half THEN 1 ELSE 0]
    IN  IF P < 0 \/ (P > 0 /\ B < 0)
        THEN Panic(g)        \* make: len out of range
        ELSE [g EXCEPT
                !.heap = [i \in 1..P |-> genes(i)],
                !.population = [i \in 1..P |->
                    [Genes |-> i, Fitness |-> FitnessFunc(g.config, genes(i))]],
                !.evals = g.evals + P,
                !.rng = Drawn(g.rng, P * Max(B, 0))]

\* Run() up to its loop: ga.Initialize(); generation := 0
RunEnabled(g) == g.pc = "new"

RunAgainEnabled(g) == g.pc = "done" /\ g.runs < MaxRuns

RunOp(g, ds) ==
    LET started == [g EXCEPT !.runs = g.runs + 1, !.result = NoResult,
                             !.generation = 0, !.pc = "loop"]
    IN  Initialize(started, ds)

NoDraws(g) == {<< >>}

\* top of a generation: sort, record the best fitness, copy the elites
RankEnabled(g) == g.pc = "loop" /\ g.generation < g.config.MaxGenerations

\* mutant of elites: the copy loop starts at the second individual
elites_fromSecond(config, population) ==
    SubSeq(population, 2, Min(Max(config.ElitismCount, 0), Len(population)))

\* mutant of elites: the copy loop stops one individual early
elites_oneLess(config, population) ==
    SubSeq(population, 1, Min(Max(config.ElitismCount - 1, 0), Len(population)))

elites(config, population) ==
    SubSeq(population, 1, Min(Max(config.ElitismCount, 0), Len(population)))

\* mutant of recordBest: the history is overwritten, not appended to
recordBest_overwrite(bestFitness, population) == <<population[1].Fitness>>

\* ga.bestFitness = append(ga.bestFitness, ga.population[0].Fitness)
recordBest(bestFitness, population) == Append(bestFitness, population[1].Fitness)

RankOp(g, ds) ==
    LET sorted == sortSlice(g.population)
    IN  IF Len(sorted) = 0
        THEN Panic(g)        \* ga.population[0]: index out of range
        ELSE [g EXCEPT
                !.population = sorted,
                !.bestFitness = recordBest(g.bestFitness, sorted),
                !.newPopulation = elites(g.config, sorted),
                !.pc = "fill"]

\* parent1 := ga.tournamentSelection()
TournamentDraws(g) == [1..TournamentSize -> 0..(Len(g.population) - 1)]

SelectParent1Enabled(g) ==
    g.pc = "fill" /\ Len(g.newPopulation) < g.config.PopulationSize

SelectParent1Op(g, ds) ==
    [g EXCEPT !.parent1 = tournamentSelection(g.population, ds),
              !.rng = Drawn(g.rng, Len(ds)),
              !.pc = "select2"]

\* parent2 := ga.tournamentSelection()
SelectParent2Enabled(g) == g.pc = "select2"

SelectParent2Op(g, ds) ==
    [g EXCEPT !.parent2 = tournamentSelection(g.population, ds),
              !.rng = Drawn(g.rng, Len(ds)),
              !.pc = "recombine"]

\* if rng.Float64() < CrossoverProb: crossover, else the children are the
\* parents; ds[1] is that Float64(), the rest are the draws of the crossover
RecombineEnabled(g) == g.pc = "recombine"

RecombineDraws(g) ==
    LET L == Len(GenesOf(g.heap, g.parent1))
        cross == {c \in Float64s : c < g.config.CrossoverProb}
    IN  {<<c>> : c \in Float64s \ cross}
        \cup (IF g.config.CrossoverType = "onepoint"
              THEN (IF L = 0 THEN {<<c>> : c \in cross}
                    ELSE {<<c, point>> : c \in cross, point \in 0..(L - 1)})
              ELSE {<<c>> \o flips : c \in cross, flips \in [1..L -> Float64s]})

RecombineOp(g, ds) ==
    IF ds[1] < g.config.CrossoverProb
    THEN IF g.config.CrossoverType = "onepoint" /\ Len(ds) = 1
         THEN Panic(g)        \* rng.Intn(0)
         ELSE LET c == crossover(g.config, g.heap, g.parent1, g.parent2, Tail(ds))
              IN  [g EXCEPT !.heap = c.heap, !.child1 = c.child1, !.child2 = c.child2,
                            !.rng = Drawn(g.rng, Len(ds)),
                            !.pc = "mutate1"]
    ELSE [g EXCEPT !.child1 = g.parent1, !.child2 = g.parent2,
                   !.rng = Drawn(g.rng, Len(ds)),
                   !.pc = "mutate1"]

\* ga.mutate(&child1)
MutateChild1Enabled(g) == g.pc = "mutate1"

MutateChild1Draws(g) == [1..Len(GenesOf(g.heap, g.child1)) -> Float64s]

MutateChild1Op(g, ds) ==
    [g EXCEPT !.heap = mutate(g.config, g.heap, g.child1, ds),
              !.rng = Drawn(g.rng, Len(ds)),
              !.pc = "mutate2"]

\* ga.mutate(&child2)
MutateChild2Enabled(g) == g.pc = "mutate2"

MutateChild2Draws(g) == [1..Len(GenesOf(g.heap, g.child2)) -> Float64s]

MutateChild2Op(g, ds) ==
    [g EXCEPT !.heap = mutate(g.config, g.heap, g.child2, ds),
              !.rng = Drawn(g.rng, Len(ds)),
              !.pc = "evaluate"]

\* evaluate both children, append child1, and child2 if there is room
EvaluateAppendEnabled(g) == g.pc = "evaluate"

\* mutant of appendChildren: child2 is appended without the room check
appendChildren_both(config, newPopulation, child1, child2) ==
    Append(Append(newPopulation, child1), child2)

appendChildren(config, newPopulation, child1, child2) ==
    LET one == Append(newPopulation, child1)
    IN  IF Len(one) < config.PopulationSize THEN Append(one, child2) ELSE one

EvaluateAppendOp(g, ds) ==
    LET child1 == [g.child1 EXCEPT
                      !.Fitness = FitnessFunc(g.config, GenesOf(g.heap, g.child1))]
        child2 == [g.child2 EXCEPT
                      !.Fitness = FitnessFunc(g.config, GenesOf(g.heap, g.child2))]
    IN  Collect([g EXCEPT
            !.newPopulation = appendChildren(g.config, g.newPopulation, child1, child2),
            !.evals = g.evals + 2,
            !.parent1 = NilIndividual, !.parent2 = NilIndividual,
            !.child1 = NilIndividual, !.child2 = NilIndividual,
            !.pc = "fill"])

\* ga.population = newPopulation; generation++
ReplaceEnabled(g) ==
    g.pc = "fill" /\ ~(Len(g.newPopulation) < g.config.PopulationSize)

ReplaceOp(g, ds) ==
    Collect([g EXCEPT !.population = g.newPopulation,
                      !.newPopulation = << >>,
                      !.generation = g.generation + 1,
                      !.pc = "loop"])

\* after the loop: the final sort, return ga.population[0], ga.bestFitness
FinishEnabled(g) == g.pc = "loop" /\ ~(g.generation < g.config.MaxGenerations)

FinishOp(g, ds) ==
    LET sorted == sortSlice(g.population)
    IN  IF Len(sorted) = 0
        THEN Panic(g)        \* ga.population[0]: index out of range
        ELSE Collect([g EXCEPT
                !.population = sorted,
                !.result = [returned |-> TRUE, best |-> sorted[1],
                            history |-> g.bestFitness],
                !.pc = "done"])

\* GetBestFitnessHistory()
GetBestFitnessHistory(g) == g.bestFitness

\* ------------------------------------------------------------ actions
\* One step of the engine ga; a twin engine, when there is one, takes the
\* same step of its own run, and its source yields the same values as ga's
\* exactly when both are at the same position of the same seed's stream.
Step(Enabled(_), Draws(_), Op(_, _)) ==
    \E ds \in Draws(ga) :
        /\ ga' = Op(ga, ds)
        /\ IF twin.pc = "absent"
           THEN twin' = twin
           ELSE /\ Enabled(twin)
                /\ \E ds2 \in Draws(twin) :
                      /\ SameStream(ga.rng, twin.rng) => ds2 = ds
                      /\ twin' = Op(twin, ds2)

Run ==
    /\ RunEnabled(ga)
    /\ Step(RunEnabled, InitializeDraws, RunOp)

RunAgain ==
    /\ RunAgainEnabled(ga)
    /\ Step(RunAgainEnabled, InitializeDraws, RunOp)

Rank ==
    /\ RankEnabled(ga)
    /\ Step(RankEnabled, NoDraws, RankOp)

SelectParent1 ==
    /\ SelectParent1Enabled(ga)
    /\ Step(SelectParent1Enabled, TournamentDraws, SelectParent1Op)

SelectParent2 ==
    /\ SelectParent2Enabled(ga)
    /\ Step(SelectParent2Enabled, TournamentDraws, SelectParent2Op)

Recombine ==
    /\ RecombineEnabled(ga)
    /\ Step(RecombineEnabled, RecombineDraws, RecombineOp)

MutateChild1 ==
    /\ MutateChild1Enabled(ga)
    /\ Step(MutateChild1Enabled, MutateChild1Draws, MutateChild1Op)

MutateChild2 ==
    /\ MutateChild2Enabled(ga)
    /\ Step(MutateChild2Enabled, MutateChild2Draws, MutateChild2Op)

EvaluateAppend ==
    /\ EvaluateAppendEnabled(ga)
    /\ Step(EvaluateAppendEnabled, NoDraws, EvaluateAppendOp)

Replace ==
    /\ ReplaceEnabled(ga)
    /\ Step(ReplaceEnabled, NoDraws, ReplaceOp)

Finish ==
    /\ FinishEnabled(ga)
    /\ Step(FinishEnabled, NoDraws, FinishOp)

\* ------------------------------------------------------ configurations
\* probabilities in halves: 0.0, 0.5, 1.0
Probabilities == {0, 1, 2}

CrossoverTypes == {"onepoint", "uniform"}

Evaluators == {"decodeInt", "array"}

\* the Configs the data model calls valid
AllConfigs ==
    [PopulationSize : 1..MaxPopulationSize,
     MaxGenerations : 0..MaxGenerationsBound,
     CrossoverProb  : Probabilities,
     MutationProb   : Probabilities,
     CrossoverType  : CrossoverTypes,
     ElitismCount   : 0..(MaxPopulationSize + 1),
     BitsPerGene    : 1..MaxBitsPerGene,
     FitnessFunc    : Evaluators,
     Seed           : {0}]

WithinBounds(config) ==
    /\ config.PopulationSize * config.BitsPerGene <= MaxCells
    /\ config.PopulationSize * config.MaxGenerations <= MaxOffspring

Configs == {config \in AllConfigs : WithinBounds(config)}

Valid(config) ==
    /\ config.PopulationSize >= 1
    /\ config.MaxGenerations >= 0
    /\ config.BitsPerGene >= 1
    /\ config.CrossoverProb \in Probabilities
    /\ config.MutationProb \in Probabilities
    /\ config.CrossoverType \in CrossoverTypes

\* --------------------------------------------------- specifications
Init == \E config \in Configs :
            /\ ga = NewGeneticAlgorithm(1, config)
            /\ twin = Absent

Next ==
    \/ Run
    \/ Rank
    \/ SelectParent1
    \/ SelectParent2
    \/ Recombine
    \/ MutateChild1
    \/ MutateChild2
    \/ EvaluateAppend
    \/ Replace
    \/ Finish

\* one engine, one Run()
Spec == Init /\ [][Next]_vars

\* an engine built from a Config the data model rules out
BadProbabilities == {-1, 3}

Corrupted(config) ==
    {[config EXCEPT !.PopulationSize = v] : v \in {-1, 0}}
    \cup {[config EXCEPT !.MaxGenerations = -1]}
    \cup {[config EXCEPT !.BitsPerGene = v] : v \in {-1, 0}}
    \cup {[config EXCEPT !.CrossoverProb = v] : v \in BadProbabilities}
    \cup {[config EXCEPT !.MutationProb = v] : v \in BadProbabilities}
    \cup {[config EXCEPT !.CrossoverType = "twopoint"]}

InitAny == \E config \in Configs : \E bad \in Corrupted(config) :
               /\ ga = NewGeneticAlgorithm(1, bad)
               /\ twin = Absent

SpecAny == InitAny /\ [][Next]_vars

\* one engine, Run() called up to MaxRuns times
NextRerun == Next \/ RunAgain

\* every later Run() starts from each state an earlier one can end in: the
\* engines run again are those of one-bit genes and at most one generation
InitRerun == \E config \in Configs :
                 /\ config.BitsPerGene = 1
                 /\ config.MaxGenerations <= 1
                 /\ ga = NewGeneticAlgorithm(1, config)
                 /\ twin = Absent

SpecRerun == InitRerun /\ [][NextRerun]_vars

\* two engines built from the same Config, each run once
InitPair == \E config \in Configs :
                /\ ga = NewGeneticAlgorithm(1, config)
                /\ twin = NewGeneticAlgorithm(2, config)

SpecPair == InitPair /\ [][Next]_vars

\* ------------------------------------------------------------- claims
\* the fitness an individual carries is the fitness of the genes it holds
Fresh(g, individual) ==
    individual.Fitness = FitnessFunc(g.config, GenesOf(g.heap, individual))

InGeneration(g) ==
    g.pc \in {"fill", "select2", "recombine", "mutate1", "mutate2", "evaluate"}

\* C1: at the start of every generation and when Run() returns, every
\* individual of the population, and the best individual returned, carries
\* the fitness of the genes it currently holds.
C1_FitnessOfCurrentGenes ==
    /\ ga.pc \in {"loop", "done"} =>
          \A i \in 1..Len(ga.population) : Fresh(ga, ga.population[i])
    /\ ga.pc = "done" => Fresh(ga, ga.result.best)

\* C2: a Run() on a new engine appends exactly one history entry per
\* generation: the history has length g after g generations, a step
\* leaves it alone or appends one entry, and the history returned has
\* length MaxGenerations.
HistoryLength ==
    /\ Len(ga.bestFitness) = ga.generation + (IF InGeneration(ga) THEN 1 ELSE 0)
    /\ ga.pc = "done" =>
          /\ ga.result.history = ga.bestFitness
          /\ Len(ga.result.history) = ga.config.MaxGenerations

HistoryAppendOnly ==
    /\ Len(ga'.bestFitness) \in {Len(ga.bestFitness), Len(ga.bestFitness) + 1}
    /\ SubSeq(ga'.bestFitness, 1, Len(ga.bestFitness)) = ga.bestFitness
    /\ Len(ga'.bestFitness) = Len(ga.bestFitness) + 1 <=>
          (ga.pc = "loop" /\ ga'.pc = "fill")

C2_OneEntryPerGeneration == [](HistoryLength) /\ [][HistoryAppendOnly]_vars

C2_Witness ==
    /\ ga.pc = "done"
    /\ ga.config.MaxGenerations = MaxGenerationsBound
    /\ Len(ga.result.history) = MaxGenerationsBound

\* C3: with ElitismCount >= 1 the history is non-decreasing, so the last
\* entry of the history returned is the maximum of the history.
NonDecreasing(history) ==
    \A k \in 1..(Len(history) - 1) : history[k + 1] >= history[k]

C3_HistoryNonDecreasing ==
    ga.config.ElitismCount >= 1 =>
        /\ NonDecreasing(ga.bestFitness)
        /\ (ga.pc = "done" /\ Len(ga.result.history) > 0) =>
              \A k \in 1..Len(ga.result.history) :
                  ga.result.history[Len(ga.result.history)] >= ga.result.history[k]

C3_Witness ==
    /\ ga.pc = "done"
    /\ ga.config.ElitismCount >= 1
    /\ Len(ga.result.history) >= 2
    /\ ga.result.history[2] > ga.result.history[1]

\* C4: two engines built from the same Config and each run once go through
\* the same populations, histories and results, step by step.
SameRun(g1, g2) == [g1 EXCEPT !.self = 0] = [g2 EXCEPT !.self = 0]

C5_InvalidConfigRejected ==
    ~Valid(ga.config) =>
        /\ ga.population = << >>
        /\ ga.rng.pos = 0
        /\ ga.evals = 0
        /\ ~ga.result.returned

\* C6: after any number of Run() calls on one engine, the history accessor
\* gives the history the last Run() returned, of length MaxGenerations.
C6_HistoryOfLastRun ==
    ga.pc = "done" =>
        /\ GetBestFitnessHistory(ga) = ga.result.history
        /\ Len(GetBestFitnessHistory(ga)) = ga.config.MaxGenerations

\* the individuals of the population, by genes and fitness, with their counts
Census(g) ==
    LET member(i) == [genes   |-> GenesOf(g.heap, g.population[i]),
                      fitness |-> g.population[i].Fitness]
        members == {member(i) : i \in 1..Len(g.population)}
    IN  [m \in members |-> Cardinality({i \in 1..Len(g.population) : member(i) = m})]

\* C7: with MaxGenerations = 0, Run() initializes the population, makes no
\* generation transition, and returns an empty history with an individual
\* of the initial population whose fitness is the population's maximum.
NoGenerationResult ==
    ga.config.MaxGenerations = 0 =>
        /\ ga.pc \in {"new", "loop", "done"}
        /\ ga.generation = 0
        /\ ga.bestFitness = << >>
        /\ ga.pc = "done" =>
              /\ ga.result.returned
              /\ ga.result.history = << >>
              /\ Len(ga.population) = ga.config.PopulationSize
              /\ \E i \in 1..Len(ga.population) : ga.population[i] = ga.result.best
              /\ \A i \in 1..Len(ga.population) :
                    /\ Fresh(ga, ga.population[i])
                    /\ ga.result.best.Fitness >= ga.population[i].Fitness

\* the final sort keeps the individuals the initialization made
NoGenerationKeepsInitial ==
    (ga.config.MaxGenerations = 0 /\ ga.pc = "loop") => Census(ga') = Census(ga)

C7_NoGenerations == [](NoGenerationResult) /\ [][NoGenerationKeepsInitial]_vars

C7_Witness ==
    /\ ga.pc = "done"
    /\ ga.config.MaxGenerations = 0
    /\ ga.config.PopulationSize = MaxPopulationSize
    /\ ga.result.history = << >>
    /\ ga.population[1].Fitness > ga.population[2].Fitness

\* C8: with CrossoverProb = 0, MutationProb = 0 and ElitismCount =
\* PopulationSize, every generation holds the individuals of the initial
\* population, and every history entry is the initial maximum fitness.
AllElite(config) ==
    /\ config.CrossoverProb = 0
    /\ config.MutationProb = 0
    /\ config.ElitismCount = config.PopulationSize

MaxFitness(population) ==
    CHOOSE f \in {population[i].Fitness : i \in 1..Len(population)} :
        \A i \in 1..Len(population) : f >= population[i].Fitness

\* the next population is the current one from the moment it is seeded
HistoryConstant ==
    (AllElite(ga.config) /\ ga.pc # "new") =>
        /\ \A k \in 1..Len(ga.bestFitness) :
              ga.bestFitness[k] = MaxFitness(ga.population)
        /\ ga.pc = "fill" =>
              Census([ga EXCEPT !.population = ga.newPopulation]) = Census(ga)

\* no step after the initialization changes who is in the population
PopulationKept ==
    (AllElite(ga.config) /\ ga.pc # "new") => Census(ga') = Census(ga)

C8_AllEliteFixedPoint == [](HistoryConstant) /\ [][PopulationKept]_vars

C8_Witness ==
    /\ ga.pc = "done"
    /\ AllElite(ga.config)
    /\ ga.config.MaxGenerations = MaxGenerationsBound
    /\ ga.config.PopulationSize = MaxPopulationSize
    /\ ga.population[1].Fitness > ga.population[2].Fitness
    /\ Len(ga.result.history) = MaxGenerationsBound

\* C9: mutate with MutationProb = 0 leaves every bit as it is, with
\* MutationProb = 1 flips every bit, whatever is drawn; the length is kept.
MutationEffect(child) ==
    LET before == GenesOf(ga.heap, child)
        after  == GenesOf(ga'.heap, child)
    IN  /\ Len(after) = Len(before)
        /\ ga.config.MutationProb = 0 => after = before
        /\ ga.config.MutationProb = 2 =>
              \A i \in 1..Len(before) : after[i] = 1 - before[i]

MutationSteps ==
    /\ (ga.pc = "mutate1" /\ ga'.pc = "mutate2") => MutationEffect(ga.child1)
    /\ (ga.pc = "mutate2" /\ ga'.pc = "evaluate") => MutationEffect(ga.child2)

C9_MutationExtremes == [][MutationSteps]_vars

C9_Witness ==
    /\ ga.pc = "mutate2"
    /\ ga.config.MutationProb = 2
    /\ ga.config.BitsPerGene = MaxBitsPerGene
    /\ ga.config.FitnessFunc = "decodeInt"
    /\ ga.child1.Genes = ga.parent1.Genes
    /\ ~Fresh(ga, ga.child1)

\* C10: one-point crossover of parents of length L yields, for a cut c in
\* [0, L), child1 = parent1[0:c] + parent2[c:] and child2 = parent2[0:c] +
\* parent1[c:], both of length L, and leaves the parents' genes alone.
Recombined(a, b, c) == SubSeq(a, 1, c) \o SubSeq(b, c + 1, Len(b))

OnePointEffect ==
    LET p1 == GenesOf(ga.heap, ga.parent1)
        p2 == GenesOf(ga.heap, ga.parent2)
        c1 == GenesOf(ga'.heap, ga'.child1)
        c2 == GenesOf(ga'.heap, ga'.child2)
    IN  /\ Len(c1) = Len(p1)
        /\ Len(c2) = Len(p1)
        /\ \E c \in 0..(Len(p1) - 1) :
              /\ c1 = Recombined(p1, p2, c)
              /\ c2 = Recombined(p2, p1, c)
        /\ GenesOf(ga'.heap, ga.parent1) = p1
        /\ GenesOf(ga'.heap, ga.parent2) = p2
        /\ ga'.parent1 = ga.parent1
        /\ ga'.parent2 = ga.parent2

\* a Recombine step that crossed over: the children are new arrays
CrossedOver ==
    /\ ga.pc = "recombine"
    /\ ga'.pc = "mutate1"
    /\ ga'.child1.Genes > Len(ga.heap)

OnePointSteps ==
    (CrossedOver /\ ga.config.CrossoverType = "onepoint") => OnePointEffect

C10_OnePointCrossover == [][OnePointSteps]_vars

C10_Witness ==
    /\ ga.pc = "mutate1"
    /\ ga.config.CrossoverType = "onepoint"
    /\ ga.child1.Genes \notin {ga.parent1.Genes, ga.parent2.Genes}
    /\ GenesOf(ga.heap, ga.parent1) = <<0, 1>>
    /\ GenesOf(ga.heap, ga.parent2) = <<1, 0>>
    /\ GenesOf(ga.heap, ga.child1) = <<0, 0>>
    /\ GenesOf(ga.heap, ga.child2) = <<1, 1>>

\* C11: uniform crossover of parents of equal length yields two children
\* of that length whose bits at every position are the parents' bits at
\* that position, either in order or swapped: never both from one parent.
UniformEffect ==
    LET p1 == GenesOf(ga.heap, ga.parent1)
        p2 == GenesOf(ga.heap, ga.parent2)
        c1 == GenesOf(ga'.heap, ga'.child1)
        c2 == GenesOf(ga'.heap, ga'.child2)
    IN  /\ Len(c1) = Len(p1)
        /\ Len(c2) = Len(p2)
        /\ ga'.child1.Genes # ga'.child2.Genes
        /\ \A i \in 1..Len(p1) :
              \/ (c1[i] = p1[i] /\ c2[i] = p2[i])
              \/ (c1[i] = p2[i] /\ c2[i] = p1[i])

UniformSteps ==
    (CrossedOver /\ ga.config.CrossoverType = "uniform") => UniformEffect

C11_UniformCrossover == [][UniformSteps]_vars

C11_Witness ==
    /\ ga.pc = "mutate1"
    /\ ga.config.CrossoverType = "uniform"
    /\ ga.child1.Genes \notin {ga.parent1.Genes, ga.parent2.Genes}
    /\ GenesOf(ga.heap, ga.parent1) = <<0, 1>>
    /\ GenesOf(ga.heap, ga.parent2) = <<1, 0>>
    /\ GenesOf(ga.heap, ga.child1) = <<0, 0>>
    /\ GenesOf(ga.heap, ga.child2) = <<1, 1>>

\* ------------------------------------------------ BytesToInt on its own
\* longest bit vector decoded
MaxDecodeLength == 65

Zeros(L) == [i \in 1..L |-> 0]

Ones(L) == [i \in 1..L |-> 1]

OneBit(L, k) == [i \in 1..L |-> IF i = k THEN 1 ELSE 0]

\* every short vector; of every length the zero vector, the all-ones
\* vector and the vectors of one set bit
DecodeInputs ==
    UNION {[1..L -> {0, 1}] : L \in 0..MaxBitsPerGene}
    \cup {Zeros(L) : L \in 0..MaxDecodeLength}
    \cup {Ones(L) : L \in 0..MaxDecodeLength}
    \cup UNION {{OneBit(L, k) : k \in 1..L} : L \in 1..MaxDecodeLength}

InitDecode == \E genes \in DecodeInputs :
                  /\ ga = [pc |-> "decode", genes |-> genes, word |-> {}]
                  /\ twin = Absent

\* result := BytesToInt(genes)
Decode ==
    /\ ga.pc = "decode"
    /\ ga' = [pc |-> "decoded", genes |-> ga.genes, word |-> BytesToWord(ga.genes)]
    /\ twin' = twin

NextDecode == Decode

SpecDecode == InitDecode /\ [][NextDecode]_vars

\* the 0-based positions of the bits set in a vector
SetBits(genes) == {i \in 0..(Len(genes) - 1) : genes[i + 1] = 1}

\* the word is the non-negative integer that is the sum of 2^i over `bits`:
\* its sign is clear and its binary digits are exactly `bits`
Denotes(word, bits) == (IntBits - 1) \notin word /\ word = bits

\* C12: BytesToInt of a bit vector of length L is the sum of 2^i over its
\* set positions, a value in [0, 2^L - 1]: 0 for the zero vector, 2^L - 1
\* for the all-ones vector; the vector is not modified.
C12_BytesToIntValue ==
    ga.pc = "decoded" =>
        /\ Denotes(ga.word, SetBits(ga.genes))
        /\ (IntBits - 1) \notin ga.word /\ ga.word \subseteq 0..(Len(ga.genes) - 1)
        /\ ga.genes = Zeros(Len(ga.genes)) => ga.word = {}
        /\ ga.genes = Ones(Len(ga.genes)) =>
              Denotes(ga.word, 0..(Len(ga.genes) - 1))

\* an individual by what it holds: its genes and its fitness
ValueOf(g, individual) ==
    [genes |-> GenesOf(g.heap, individual), fitness |-> individual.Fitness]

\* the elites of the generation under way are the first individuals of
\* the next population
EliteCount(g) == Min(Max(g.config.ElitismCount, 0), g.config.PopulationSize)

\* C13: each elite placed in the next population has, through every later
\* step of the generation and when the next population becomes the
\* current one, the genes and the fitness it had when it was ranked.
ElitesKept ==
    InGeneration(ga) =>
        \A i \in 1..EliteCount(ga) :
            ValueOf(ga', IF ga'.pc = "loop" THEN ga'.population[i]
                                            ELSE ga'.newPopulation[i])
                = ValueOf(ga, ga.newPopulation[i])

C13_ElitesUnchanged == [][ElitesKept]_vars

\* the current population by what its individuals hold, in order
PopulationValues(g) ==
    [i \in 1..Len(g.population) |-> ValueOf(g, g.population[i])]

\* C14: while the next population is being built the current population
\* is not modified: from the ranking sort to the replacement no step
\* (selection, crossover, mutation of the children, evaluation) changes
\* the genes or the fitness of an individual of the current population.
PopulationFrozen ==
    (InGeneration(ga) /\ InGeneration(ga')) =>
        PopulationValues(ga') = PopulationValues(ga)

C14_CurrentPopulationUnmodified == [][PopulationFrozen]_vars

\* C15: for PopulationSize >= 1 and ElitismCount >= 0 (also above
\* PopulationSize, where it is clamped) the population has exactly
\* PopulationSize individuals after initialization and after every
\* generation, each of gene length BitsPerGene, and when one slot remains
\* the second child of the pair is dropped, not appended.
Shaped(g, individuals) ==
    \A i \in 1..Len(individuals) :
        Len(GenesOf(g.heap, individuals[i])) = g.config.BitsPerGene

PopulationShape ==
    (ga.pc \in {"loop", "done"} \/ InGeneration(ga)) =>
        /\ Len(ga.population) = ga.config.PopulationSize
        /\ Shaped(ga, ga.population)
        /\ Len(ga.newPopulation) <= ga.config.PopulationSize
        /\ Shaped(ga, ga.newPopulation)
        /\ ga.pc = "fill" =>
              Len(ga.newPopulation) >=
                  Min(ga.config.ElitismCount, ga.config.PopulationSize)

SurplusChildDropped ==
    ga.pc = "evaluate" =>
        LET n == Len(ga.newPopulation)
            genesAt(i) == GenesOf(ga'.heap, ga'.newPopulation[i])
        IN  IF n = ga.config.PopulationSize - 1
            THEN /\ Len(ga'.newPopulation) = n + 1
                 /\ genesAt(n + 1) = GenesOf(ga.heap, ga.child1)
            ELSE /\ Len(ga'.newPopulation) = n + 2
                 /\ genesAt(n + 1) = GenesOf(ga.heap, ga.child1)
                 /\ genesAt(n + 2) = GenesOf(ga.heap, ga.child2)

C15_PopulationSizeKept == [](PopulationShape) /\ [][SurplusChildDropped]_vars

\* the second generation, filled after the second child was dropped
C15_Witness ==
    /\ ga.pc = "fill"
    /\ ga.generation = 1
    /\ ga.config.PopulationSize = MaxPopulationSize
    /\ ga.config.ElitismCount = ga.config.PopulationSize - 1
    /\ Len(ga.population) = ga.config.PopulationSize
    /\ Len(ga.newPopulation) = ga.config.PopulationSize

\* -------------------------------------------- tournamentSelection alone
MaxTournamentPopulation == 3
MaxTournamentFitness == 2

\* populations of distinct individuals (each its own gene array)
TournamentPopulations ==
    UNION {[1..n -> [Genes : 1..MaxTournamentPopulation,
                     Fitness : 0..MaxTournamentFitness]]
           : n \in 1..MaxTournamentPopulation}

InitTournament ==
    \E population \in TournamentPopulations :
        /\ \A i \in 1..Len(population) : population[i].Genes = i
        /\ ga = [pc |-> "select", population |-> population,
                 rng |-> [seed |-> 0, pos |-> 0],
                 draws |-> << >>, selected |-> NilIndividual]
        /\ twin = Absent

\* one call of ga.tournamentSelection(); draws keeps the values of Intn
Select ==
    /\ ga.pc = "select"
    /\ \E ds \in TournamentDraws(ga) :
          ga' = [ga EXCEPT !.selected = tournamentSelection(ga.population, ds),
                           !.rng = Drawn(ga.rng, Len(ds)),
                           !.draws = ds,
                           !.pc = "selected"]
    /\ twin' = twin

NextTournament == Select

SpecTournament == InitTournament /\ [][NextTournament]_vars

\* C16: tournament selection draws exactly 3 indices of the current
\* population, with replacement, and returns the drawn individual of
\* greatest fitness, the first drawn of them on a tie; the result is a
\* member of the population and the population is left unchanged.
DrawnAt(k) == ga.population[ga.draws[k] + 1]

FirstBestDrawn ==
    ga.pc = "selected" =>
        /\ Len(ga.draws) = 3
        /\ ga.rng.pos = 3
        /\ \A k \in 1..3 : ga.draws[k] \in 0..(Len(ga.population) - 1)
        /\ \E k \in 1..3 :
              /\ ga.selected = DrawnAt(k)
              /\ \A j \in 1..3 : DrawnAt(j).Fitness <= ga.selected.Fitness
              /\ \A j \in 1..(k - 1) : DrawnAt(j).Fitness < ga.selected.Fitness
        /\ \E i \in 1..Len(ga.population) : ga.selected = ga.population[i]

PopulationUntouched == ga'.population = ga.population

C16_TournamentSelection == [](FirstBestDrawn) /\ [][PopulationUntouched]_vars

\* a tie between two drawn individuals, the second of the population drawn first
C16_Witness ==
    /\ ga.pc = "selected"
    /\ Len(ga.population) = 3
    /\ ga.draws = <<1, 2, 0>>
    /\ ga.population[1].Fitness = ga.population[2].Fitness
    /\ ga.population[3].Fitness < ga.population[2].Fitness
    /\ ga.selected = ga.population[2]

====
